---- MODULE Spec2Model ----
(***************************************************************************)
(* Model of the Grist custom-forms proxy (src/app.py): a Flask service     *)
(* that forwards record reads and writes to a remote Grist table, checks   *)
(* FINESS uniqueness before a write, recovers a uuid from an email and     *)
(* serves an admin overview behind HTTP basic auth.                        *)
(*                                                                         *)
(* Python strings are sequences of one-character strings.  A Python value  *)
(* is a record [t, s, items]: t is the type ("none", "str", "bool",        *)
(* "int", "list"), s the text of a scalar (what str(value) gives), items   *)
(* the elements of a list (each a string).  A field mapping is a function  *)
(* from the field names it holds to values.                                *)
(***************************************************************************)
EXTENDS Integers, Sequences, FiniteSets, TLC

VARIABLES
    table,      \* the remote table: a sequence of rows [id, fields]
    nextId,     \* the row id the remote store gives to the next inserted row
    req,        \* per handler thread: the request being served and its locals
    env         \* process environment: ADMIN_USERNAME, ADMIN_PASSWORD

vars == <<table, nextId, req, env>>

----------------------------------------------------------------------------
\* Bounds of the model.

\* Largest number of rows the saves may build up in the remote table.
MaxRows == 3

\* Largest number of rows of a table the read-only specifications start from.
MaxInitRows == 3

\* requests.get(..., params={'limit': 5000}): the single page fetched.
PageLimit == 5000

----------------------------------------------------------------------------
\* Python strings and values.

PyNone == [t |-> "none", s |-> <<>>, items |-> <<>>]

Str(chars) == [t |-> "str", s |-> chars, items |-> <<>>]

PyBool(b) ==
    [t |-> "bool",
     s |-> IF b THEN <<"T", "r", "u", "e">> ELSE <<"F", "a", "l", "s", "e">>,
     items |-> <<>>]

PyInt(digits) == [t |-> "int", s |-> digits, items |-> <<>>]

PyList(elems) == [t |-> "list", s |-> <<>>, items |-> elems]

\* Python truthiness of a value (`not v`, `v or ''`).
Truthy(v) ==
    CASE v.t = "none" -> FALSE
      [] v.t = "str"  -> v.s # <<>>
      [] v.t = "bool" -> v.s = <<"T", "r", "u", "e">>
      [] v.t = "int"  -> v.s # <<"0">>
      [] v.t = "list" -> v.items # <<>>

\* str(value), for the scalar types.
PyStr(v) == IF v.t = "none" THEN <<"N", "o", "n", "e">> ELSE v.s

\* dict.get(key): None when the key is absent.
Get(fields, key) == IF key \in DOMAIN fields THEN fields[key] ELSE PyNone

\* dict.get(key, ''): the empty string when the key is absent.
GetOrEmpty(fields, key) == IF key \in DOMAIN fields THEN fields[key] ELSE Str(<<>>)

LowerLetters ==
    <<"a", "b", "c", "d", "e", "f", "g", "h", "i", "j", "k", "l", "m",
      "n", "o", "p", "q", "r", "s", "t", "u", "v", "w", "x", "y", "z">>

UpperLetters ==
    <<"A", "B", "C", "D", "E", "F", "G", "H", "I", "J", "K", "L", "M",
      "N", "O", "P", "Q", "R", "S", "T", "U", "V", "W", "X", "Y", "Z">>

UpperChar(c) ==
    IF \E i \in 1..Len(LowerLetters) : LowerLetters[i] = c
    THEN UpperLetters[CHOOSE i \in 1..Len(LowerLetters) : LowerLetters[i] = c]
    ELSE c

LowerChar(c) ==
    IF \E i \in 1..Len(UpperLetters) : UpperLetters[i] = c
    THEN LowerLetters[CHOOSE i \in 1..Len(UpperLetters) : UpperLetters[i] = c]
    ELSE c

\* str.upper()
Upper(chars) == [i \in 1..Len(chars) |-> UpperChar(chars[i])]

\* str.lower()
Lower(chars) == [i \in 1..Len(chars) |-> LowerChar(chars[i])]

IsSpace(c) == c = " "

RECURSIVE LStrip(_)
LStrip(chars) ==
    IF chars # <<>> /\ IsSpace(Head(chars)) THEN LStrip(Tail(chars)) ELSE chars

RECURSIVE RStrip(_)
RStrip(chars) ==
    IF chars # <<>> /\ IsSpace(chars[Len(chars)])
    THEN RStrip(SubSeq(chars, 1, Len(chars) - 1))
    ELSE chars

\* str.strip()
Strip(chars) == RStrip(LStrip(chars))

\* str(value or '')
StrOrEmpty(v) == IF Truthy(v) THEN PyStr(v) ELSE <<>>

\* normalize_finess: str(value or '').strip().upper()
normalize_finess(value) == Upper(Strip(StrOrEmpty(value)))

\* normalize_email: str(value or '').strip().lower()
normalize_email(value) == Lower(Strip(StrOrEmpty(value)))

----------------------------------------------------------------------------
\* json.loads, for the JSON texts the forms send in finess_json: an array of
\* strings (without escapes), or a lone string; anything else raises.

RECURSIVE SkipWs(_, _)
SkipWs(chars, i) ==
    IF i <= Len(chars) /\ IsSpace(chars[i]) THEN SkipWs(chars, i + 1) ELSE i

JsonFail == [ok |-> FALSE, val |-> <<>>, next |-> 0]

\* A string literal starting at position i.
JsonString(chars, i) ==
    IF i <= Len(chars) /\ chars[i] = "\""
    THEN LET close == {j \in (i + 1)..Len(chars) : chars[j] = "\""}
         IN  IF close = {}
             THEN JsonFail
             ELSE LET j == CHOOSE k \in close : \A m \in close : k <= m
                  IN  [ok |-> TRUE, val |-> SubSeq(chars, i + 1, j - 1), next |-> j + 1]
    ELSE JsonFail

\* The elements of an array from position i on, up to its closing bracket.
RECURSIVE JsonElements(_, _, _)
JsonElements(chars, i, acc) ==
    LET e == JsonString(chars, SkipWs(chars, i))
        k == SkipWs(chars, e.next)
    IN  IF ~e.ok \/ k > Len(chars)
        THEN JsonFail
        ELSE IF chars[k] = ","
             THEN JsonElements(chars, k + 1, Append(acc, e.val))
             ELSE IF chars[k] = "]"
                  THEN [ok |-> TRUE, val |-> Append(acc, e.val), next |-> k + 1]
                  ELSE JsonFail

\* json.loads(text): kind "list" with its items, "str", or "error" (raises).
JsonLoads(chars) ==
    LET i == SkipWs(chars, 1)
        JsonError == [kind |-> "error", items |-> <<>>]
    IN  IF i > Len(chars)
        THEN JsonError
        ELSE IF chars[i] = "["
             THEN LET k == SkipWs(chars, i + 1)
                      r == IF k <= Len(chars) /\ chars[k] = "]"
                           THEN [ok |-> TRUE, val |-> <<>>, next |-> k + 1]
                           ELSE JsonElements(chars, i + 1, <<>>)
                  IN  IF r.ok /\ SkipWs(chars, r.next) > Len(chars)
                      THEN [kind |-> "list", items |-> r.val]
                      ELSE JsonError
             ELSE LET e == JsonString(chars, i)
                  IN  IF e.ok /\ SkipWs(chars, e.next) > Len(chars)
                      THEN [kind |-> "str", items |-> <<>>]
                      ELSE JsonError

----------------------------------------------------------------------------
\* FINESS extraction.

\* extract_finess_values: the normalized codes of finess_main and finess_json.
extract_finess_values(fields) ==
    LET main == normalize_finess(Get(fields, "finess_main"))
        raw_json == Get(fields, "finess_json")
        parsed ==
            IF raw_json.t = "str" /\ Strip(raw_json.s) # <<>>
            THEN LET loaded == JsonLoads(raw_json.s)
                 IN  IF loaded.kind = "list" THEN loaded.items ELSE <<>>
            ELSE IF raw_json.t = "list" THEN raw_json.items ELSE <<>>
        fromJson == {normalize_finess(Str(parsed[i])) : i \in 1..Len(parsed)}
    IN  (IF main # <<>> THEN {main} ELSE {}) \cup (fromJson \ {<<>>})

\* Characters in code point order, for sorted().
CharOrder ==
    <<" ", "\"", ",", "0", "1", "7", "@">> \o UpperLetters
        \o <<"[", "]", "_">> \o LowerLetters

Ord(c) == CHOOSE i \in 1..Len(CharOrder) : CharOrder[i] = c

\* a <= b, comparing strings as Python does (code point by code point).
RECURSIVE StrLeq(_, _)
StrLeq(a, b) ==
    IF a = <<>> THEN TRUE
    ELSE IF b = <<>> THEN FALSE
    ELSE IF Head(a) = Head(b) THEN StrLeq(Tail(a), Tail(b))
    ELSE Ord(Head(a)) < Ord(Head(b))

\* sorted(set of strings)
RECURSIVE Sorted(_)
Sorted(S) ==
    IF S = {} THEN <<>>
    ELSE LET m == CHOOSE x \in S : \A y \in S : StrLeq(x, y)
         IN  <<m>> \o Sorted(S \ {m})

----------------------------------------------------------------------------
\* The remote store (the Grist records API), as the service's calls see it.

\* The page a read returns: at most `limit` rows.
Page(rows, limit) == IF Len(rows) <= limit THEN rows ELSE SubSeq(rows, 1, limit)

\* GET /records?filter={column: [text]}: the rows whose cell equals the text.
RemoteFilter(rows, column, text) ==
    LET Hit(row) == column \in DOMAIN row.fields /\ row.fields[column] = Str(text)
    IN  SelectSeq(rows, Hit)

\* POST /records: a new row, with the next row id, holding the fields sent.
RemoteInsert(rows, id, fields) == Append(rows, [id |-> id, fields |-> fields])

\* PATCH /records: the columns sent replace those of the row with this id.
RemoteUpdate(rows, id, fields) ==
    [i \in 1..Len(rows) |->
        IF rows[i].id = id
        THEN [id |-> id,
              fields |-> [k \in DOMAIN rows[i].fields \cup DOMAIN fields |->
                             IF k \in DOMAIN fields THEN fields[k] ELSE rows[i].fields[k]]]
        ELSE rows[i]]

\* How an outbound call ends: HTTP 200, another HTTP status (502 stands for
\* it), or an exception raised by the HTTP client.
Outcomes == {"ok", "http_error", "raise"}

----------------------------------------------------------------------------
\* Configuration.

\* The forms of the deployment: "demo" has a document and an API key, "open"
\* has a document and no API key (neither its own nor the default one), and
\* no document is configured for "ghost".  Both documents are the same table.
Forms == {"demo", "open", "ghost"}

\* get_form_config: None (found = FALSE) when no document id is configured.
get_form_config(form_id) ==
    [found |-> form_id \in {"demo", "open"}, api_key |-> form_id = "demo"]

\* The handler threads of the server.
Procs == {1, 2}

NoResp ==
    [duplicates |-> <<>>, has_duplicates |-> FALSE, uuid |-> PyNone, count |-> 0,
     stats |-> [total_questionnaires |-> 0, en_cours |-> 0, termines |-> 0],
     rows |-> <<>>]

NoAuth == [given |-> FALSE, username |-> <<>>, password |-> <<>>]

EmptyMap == [k \in {} |-> PyNone]

\* A thread that serves no request.  A request holds its position (pc), the
\* endpoint (kind), the form, the JSON body or query arguments (data), the
\* Authorization header (auth), the handler's locals (record_id, with 0 for
\* None, incoming, duplicates, matches), the response (status, resp), the
\* outbound calls issued so far (calls) and, as history, the table as it was
\* when the request arrived (before).
IdleReq ==
    [pc |-> "idle", kind |-> "none", form |-> "none", data |-> EmptyMap,
     auth |-> NoAuth, record_id |-> 0, incoming |-> {}, duplicates |-> {},
     matches |-> <<>>, status |-> 0, resp |-> NoResp, calls |-> <<>>,
     before |-> <<>>]

\* The response is sent: the thread's request ends with this status and body.
Respond(r, status, resp) == [r EXCEPT !.pc = "done", !.status = status, !.resp = resp]

\* One more outbound call in the request's log.
Called(r, op, outcome) == [r EXCEPT !.calls = Append(@, [op |-> op, outcome |-> outcome])]

----------------------------------------------------------------------------
\* find_duplicate_finess, on the records fetch_all_records returned.  Without
\* codes to look for it returns the empty set before fetching anything: the
\* handlers below skip the scan step in that case.

find_duplicate_finess(records, current_uuid, finess_values) ==
    LET cur == normalize_finess(current_uuid)
        Other(rec) == ~(cur # <<>> /\ normalize_finess(Get(rec.fields, "uuid")) = cur)
    IN  UNION {finess_values \cap extract_finess_values(records[i].fields) :
                 i \in {j \in 1..Len(records) : Other(records[j])}}

----------------------------------------------------------------------------
\* save_record: POST /api/forms/<form_id>/record.

\* A faulty variant of existing_record_id: the filter is not applied, so the
\* lookup takes the first row of the table whatever its uuid.
existing_record_id_unfiltered(rows, uuid) == IF rows # <<>> THEN rows[1].id ELSE 0

\* The row id the existence lookup yields: that of the first row the filter
\* on the uuid returns, or None (0).
existing_record_id(rows, uuid) ==
    LET found == RemoteFilter(rows, "uuid", PyStr(uuid))
    IN  IF found # <<>> THEN found[1].id ELSE 0

\* The request after the existence lookup answered.
AfterLookup(r, outcome, rows) ==
    CASE outcome = "http_error" -> Respond(r, 502, NoResp)
      [] outcome = "raise" -> Respond(r, 500, NoResp)
      [] outcome = "ok" ->
           LET incoming == extract_finess_values(r.data)
           IN  [r EXCEPT !.record_id = existing_record_id(rows, Get(r.data, "uuid")),
                         !.incoming = incoming,
                         !.pc = IF incoming = {} THEN "write" ELSE "scan"]

\* A faulty variant of AfterScan: a failed scan is swallowed and the save goes on to
\* its write.
AfterScan_swallow(r, outcome, rows) ==
    LET duplicates ==
            IF outcome # "ok" THEN {}
            ELSE find_duplicate_finess(Page(rows, PageLimit), Get(r.data, "uuid"),
                                       r.incoming)
    IN  IF duplicates # {}
        THEN Respond([r EXCEPT !.duplicates = duplicates], 409,
                     [NoResp EXCEPT !.duplicates = Sorted(duplicates)])
        ELSE [r EXCEPT !.pc = "write"]

\* The request after the uniqueness scan answered.
AfterScan(r, outcome, rows) ==
    IF outcome # "ok"
    THEN Respond(r, 500, NoResp)
    ELSE LET duplicates ==
                 find_duplicate_finess(Page(rows, PageLimit), Get(r.data, "uuid"),
                                       r.incoming)
         IN  IF duplicates # {}
             THEN Respond([r EXCEPT !.duplicates = duplicates], 409,
                          [NoResp EXCEPT !.duplicates = Sorted(duplicates)])
             ELSE [r EXCEPT !.pc = "write"]

\* The write a save issues: an update when the lookup found a row id.
WriteOp(record_id) == IF record_id # 0 THEN "patch" ELSE "post"

\* A faulty variant of AfterWrite: the table is scanned again right before the write,
\* and a save that now collides is answered 409 without writing.
AfterWrite_recheck(r, outcome, rows, id) ==
    LET op == WriteOp(r.record_id)
        sent == Called(r, op, outcome)
        now == find_duplicate_finess(rows, Get(r.data, "uuid"), r.incoming)
    IN  IF outcome = "ok" /\ now # {}
        THEN [req |-> Respond(r, 409, [NoResp EXCEPT !.duplicates = Sorted(now)]),
              table |-> rows]
        ELSE IF outcome = "ok"
             THEN [req |-> Respond(sent, 200, NoResp),
                   table |-> IF op = "patch"
                             THEN RemoteUpdate(rows, r.record_id, r.data)
                             ELSE RemoteInsert(rows, id, r.data)]
             ELSE [req |-> Respond(sent, IF outcome = "raise" THEN 500 ELSE 502, NoResp),
                   table |-> rows]

\* Lines 236-249: the request and the table after the write answered.
AfterWrite(r, outcome, rows, id) ==
    LET op == WriteOp(r.record_id)
        sent == Called(r, op, outcome)
    IN  CASE outcome = "http_error" -> [req |-> Respond(sent, 502, NoResp), table |-> rows]
          [] outcome = "raise" -> [req |-> Respond(sent, 500, NoResp), table |-> rows]
          [] outcome = "ok" ->
               [req |-> Respond(sent, 200, NoResp),
                table |-> IF op = "patch"
                          THEN RemoteUpdate(rows, r.record_id, r.data)
                          ELSE RemoteInsert(rows, id, r.data)]

\* Lines 188-209: configuration and body checks, before any outbound call.
SaveStart(p, form, bodyOk, fields) ==
    /\ req[p].pc = "idle"
    /\ LET config == get_form_config(form)
           r == [IdleReq EXCEPT !.kind = "save", !.form = form, !.data = fields,
                                !.before = table]
       IN  req' = [req EXCEPT ![p] =
                IF ~config.found THEN Respond(r, 404, NoResp)
                ELSE IF ~config.api_key THEN Respond(r, 500, NoResp)
                ELSE IF ~bodyOk THEN Respond(r, 400, NoResp)
                ELSE IF ~Truthy(Get(fields, "uuid")) THEN Respond(r, 400, NoResp)
                ELSE [r EXCEPT !.pc = "lookup"]]
    /\ UNCHANGED <<table, nextId, env>>

\* Lines 211-226: the existence lookup, then the submitted FINESS codes.
SaveLookup(p, outcome) ==
    /\ req[p].kind = "save"
    /\ req[p].pc = "lookup"
    /\ req' = [req EXCEPT ![p] = AfterLookup(Called(@, "lookup", outcome), outcome, table)]
    /\ UNCHANGED <<table, nextId, env>>

\* Lines 226-234: the scan of the table for FINESS codes of other records.
SaveScan(p, outcome) ==
    /\ req[p].kind = "save"
    /\ req[p].pc = "scan"
    /\ req' = [req EXCEPT ![p] = AfterScan(Called(@, "scan", outcome), outcome, table)]
    /\ UNCHANGED <<table, nextId, env>>

\* The update or the insert.  The remote store takes an insert only while it
\* holds fewer than MaxRows rows.
SaveWrite(p, outcome) ==
    /\ req[p].kind = "save"
    /\ req[p].pc = "write"
    /\ (outcome = "ok" /\ WriteOp(req[p].record_id) = "post") => Len(table) < MaxRows
    /\ LET w == AfterWrite(req[p], outcome, table, nextId)
       IN  /\ req' = [req EXCEPT ![p] = w.req]
           /\ table' = w.table
           /\ nextId' = IF Len(w.table) > Len(table) THEN nextId + 1 ELSE nextId
    /\ UNCHANGED env

----------------------------------------------------------------------------
\* check_finess: POST /api/forms/<form_id>/check-finess.

\* A faulty variant of check_finess_values: the empty codes are kept.
check_finess_values_keep_empty(data) ==
    LET raw_finess == Get(data, "finess")
        items == IF Truthy(raw_finess) THEN raw_finess.items ELSE <<>>
    IN  {normalize_finess(Str(items[i])) : i \in 1..Len(items)}

\* The codes of the `finess` list of the body: normalized, the empty ones
\* dropped.  (`data.get('finess') or []`: a missing or falsy value is [].)
check_finess_values(data) ==
    LET raw_finess == Get(data, "finess")
        items == IF Truthy(raw_finess) THEN raw_finess.items ELSE <<>>
    IN  {normalize_finess(Str(items[i])) : i \in 1..Len(items)} \ {<<>>}

\* Lines 255-272, up to the call of find_duplicate_finess, which fetches the
\* records only when there are codes to look for.
CheckStart(p, form, data) ==
    /\ req[p].pc = "idle"
    /\ LET config == get_form_config(form)
           raw_finess == Get(data, "finess")
           finess_values == check_finess_values(data)
           r == [IdleReq EXCEPT !.kind = "check_finess", !.form = form, !.data = data,
                                !.before = table]
       IN  req' = [req EXCEPT ![p] =
                IF ~config.found THEN Respond(r, 404, NoResp)
                ELSE IF Truthy(raw_finess) /\ raw_finess.t # "list"
                     THEN Respond(r, 400, NoResp)
                ELSE IF finess_values = {} THEN Respond(r, 200, NoResp)
                ELSE [r EXCEPT !.pc = "scan", !.incoming = finess_values]]
    /\ UNCHANGED <<table, nextId, env>>

\* The request after the scan answered (lines 272-279).
AfterCheckScan(r, outcome, rows) ==
    IF outcome # "ok"
    THEN Respond(r, 500, NoResp)
    ELSE LET duplicates ==
                 find_duplicate_finess(Page(rows, PageLimit),
                                       Str(normalize_finess(Get(r.data, "uuid"))),
                                       r.incoming)
         IN  Respond([r EXCEPT !.duplicates = duplicates], 200,
                     [NoResp EXCEPT !.duplicates = Sorted(duplicates),
                                    !.has_duplicates = Len(Sorted(duplicates)) > 0])

CheckScan(p, outcome) ==
    /\ req[p].kind = "check_finess"
    /\ req[p].pc = "scan"
    /\ req' = [req EXCEPT ![p] = AfterCheckScan(Called(@, "scan", outcome), outcome, table)]
    /\ UNCHANGED <<table, nextId, env>>

----------------------------------------------------------------------------
\* recover_by_email: POST /api/forms/<form_id>/recover-by-email.

\* The records of a response that carry a non-empty uuid (lines 308-313).
with_uuid(records) ==
    LET Has(rec) == Truthy(Get(rec.fields, "uuid"))
    IN  SelectSeq(records, Has)

\* The records of the full scan whose normalized email is the one asked for
\* and that carry a non-empty uuid (lines 321-327).
scan_matches(records, email) ==
    LET Hit(rec) == /\ normalize_email(Get(rec.fields, "validateur_email")) = email
                    /\ Truthy(Get(rec.fields, "uuid"))
    IN  SelectSeq(records, Hit)

\* A faulty variant of most_recent: the first match is taken.
most_recent_first(matches) == matches[1]

\* max(matches, key=lambda r: int(r.get('id', 0) or 0)): the first match
\* with the largest row id.
most_recent(matches) ==
    matches[CHOOSE i \in 1..Len(matches) :
                /\ \A j \in 1..Len(matches) : matches[j].id <= matches[i].id
                /\ \A j \in 1..(i - 1) : matches[j].id < matches[i].id]

\* Lines 329-338: the answer, from the matches kept.
RecoverAnswer(r, matches) ==
    IF matches = <<>>
    THEN Respond(r, 404, NoResp)
    ELSE Respond([r EXCEPT !.matches = matches], 200,
                 [NoResp EXCEPT !.uuid = Get(most_recent(matches).fields, "uuid"),
                                !.count = Len(matches)])

\* Lines 285-297: configuration and body checks.
RecoverStart(p, form, data) ==
    /\ req[p].pc = "idle"
    /\ LET config == get_form_config(form)
           r == [IdleReq EXCEPT !.kind = "recover", !.form = form, !.data = data,
                                !.before = table]
       IN  req' = [req EXCEPT ![p] =
                IF ~config.found THEN Respond(r, 404, NoResp)
                ELSE IF normalize_email(Get(data, "email")) = <<>>
                     THEN Respond(r, 400, NoResp)
                ELSE [r EXCEPT !.pc = "filter"]]
    /\ UNCHANGED <<table, nextId, env>>

\* The request after the exact-match query answered (lines 300-316).
AfterFilter(r, outcome, rows) ==
    CASE outcome = "http_error" -> Respond(r, 502, NoResp)
      [] outcome = "raise" -> Respond(r, 500, NoResp)
      [] outcome = "ok" ->
           LET email == normalize_email(Get(r.data, "email"))
               records == Page(RemoteFilter(rows, "validateur_email", email), PageLimit)
               matches == with_uuid(records)
           IN  IF matches # <<>> THEN RecoverAnswer(r, matches) ELSE [r EXCEPT !.pc = "scan"]

\* The request after the fallback scan answered (lines 316-338).
AfterRecoverScan(r, outcome, rows) ==
    CASE outcome = "http_error" -> Respond(r, 502, NoResp)
      [] outcome = "raise" -> Respond(r, 500, NoResp)
      [] outcome = "ok" ->
           RecoverAnswer(r, scan_matches(Page(rows, PageLimit),
                                         normalize_email(Get(r.data, "email"))))

RecoverFilter(p, outcome) ==
    /\ req[p].kind = "recover"
    /\ req[p].pc = "filter"
    /\ req' = [req EXCEPT ![p] = AfterFilter(Called(@, "filter", outcome), outcome, table)]
    /\ UNCHANGED <<table, nextId, env>>

RecoverScan(p, outcome) ==
    /\ req[p].kind = "recover"
    /\ req[p].pc = "scan"
    /\ req' = [req EXCEPT ![p] = AfterRecoverScan(Called(@, "scan", outcome), outcome, table)]
    /\ UNCHANGED <<table, nextId, env>>

----------------------------------------------------------------------------
\* The admin guard and admin_overview: GET /api/forms/<form_id>/admin/overview,
\* and serve_admin: GET /admin/<form_id>/.

\* A faulty variant of require_admin_auth: the credentials are rejected only when both
\* the username and the password differ.
require_admin_auth_either(environ, auth) ==
    IF ~Truthy(environ.ADMIN_USERNAME) \/ ~Truthy(environ.ADMIN_PASSWORD)
    THEN 503
    ELSE IF \/ ~auth.given
            \/ (Str(auth.username) # environ.ADMIN_USERNAME
                /\ Str(auth.password) # environ.ADMIN_PASSWORD)
         THEN 401
         ELSE 0

\* _require_admin_auth: the status of the refusal, or 0 (None) to let the
\* handler run.
require_admin_auth(environ, auth) ==
    IF ~Truthy(environ.ADMIN_USERNAME) \/ ~Truthy(environ.ADMIN_PASSWORD)
    THEN 503
    ELSE IF \/ ~auth.given
            \/ Str(auth.username) # environ.ADMIN_USERNAME
            \/ Str(auth.password) # environ.ADMIN_PASSWORD
         THEN 401
         ELSE 0

\* _as_bool: bools as they are, None as False, anything else by its text.
as_bool(value) ==
    IF value.t = "bool" THEN Truthy(value)
    ELSE IF value.t = "none" THEN FALSE
    ELSE Lower(Strip(PyStr(value))) \in
            {<<"1">>, <<"t", "r", "u", "e">>, <<"v", "r", "a", "i">>,
             <<"o", "u", "i">>, <<"y", "e", "s">>}

\* The summary row of a record (lines 368-378).
summary_row(rec) ==
    [record_id |-> rec.id,
     uuid |-> GetOrEmpty(rec.fields, "uuid"),
     es_nom |-> GetOrEmpty(rec.fields, "es_nom"),
     departement |-> GetOrEmpty(rec.fields, "es_departement"),
     finess_main |-> GetOrEmpty(rec.fields, "finess_main"),
     validateur_nom |-> GetOrEmpty(rec.fields, "validateur_nom"),
     validateur_prenom |-> GetOrEmpty(rec.fields, "validateur_prenom"),
     validateur_email |-> GetOrEmpty(rec.fields, "validateur_email"),
     saisie_terminee |-> as_bool(Get(rec.fields, "saisie_terminee"))]

\* The summary rows of the records that have fields (lines 363-379).
summary_rows(records) ==
    LET HasFields(rec) == DOMAIN rec.fields # {}
        kept == SelectSeq(records, HasFields)
    IN  [i \in 1..Len(kept) |-> summary_row(kept[i])]

\* rows.sort(key=record id, reverse=True): a stable sort, newest first.
RECURSIVE newest_first(_)
newest_first(rows) ==
    IF rows = <<>> THEN <<>>
    ELSE LET i == CHOOSE k \in 1..Len(rows) :
                      /\ \A j \in 1..Len(rows) : rows[j].record_id <= rows[k].record_id
                      /\ \A j \in 1..(k - 1) : rows[j].record_id < rows[k].record_id
         IN  <<rows[i]>> \o newest_first(SubSeq(rows, 1, i - 1) \o SubSeq(rows, i + 1, Len(rows)))

\* ' '.join of the texts of the searched columns, in lower case.
haystack(row) ==
    Lower(PyStr(row.es_nom) \o <<" ">> \o PyStr(row.departement) \o <<" ">>
          \o PyStr(row.finess_main) \o <<" ">> \o PyStr(row.validateur_nom) \o <<" ">>
          \o PyStr(row.validateur_prenom) \o <<" ">> \o PyStr(row.validateur_email)
          \o <<" ">> \o PyStr(row.uuid))

\* needle in text
Contains(text, needle) ==
    \E i \in 1..(Len(text) - Len(needle) + 1) :
        SubSeq(text, i, i + Len(needle) - 1) = needle

\* The `search` and `status` arguments as the handler reads them
\* (lines 355-356).
search_arg(args) ==
    Lower(Strip(IF Truthy(Get(args, "search")) THEN PyStr(Get(args, "search")) ELSE <<>>))

status_arg(args) ==
    Lower(Strip(IF Truthy(Get(args, "status")) THEN PyStr(Get(args, "status"))
                ELSE <<"a", "l", "l">>))

\* The rows kept by the status filter and the search (lines 388-404).
filter_rows(rows, search, status) ==
    LET want_done == status = <<"t", "e", "r", "m", "i", "n", "e", "s">>
        filtering == status \in {<<"e", "n", "_", "c", "o", "u", "r", "s">>,
                                 <<"t", "e", "r", "m", "i", "n", "e", "s">>}
        Keep(row) == /\ filtering => row.saisie_terminee = want_done
                     /\ search # <<>> => Contains(haystack(row), search)
    IN  SelectSeq(rows, Keep)

\* A faulty variant of overview: the counts are taken after the filters.
overview_counts_after_filter(records, search, status) ==
    LET kept == filter_rows(newest_first(summary_rows(records)), search, status)
        Done(row) == row.saisie_terminee
        total == Len(kept)
        termines == Len(SelectSeq(kept, Done))
    IN  [NoResp EXCEPT !.stats = [total_questionnaires |-> total,
                                  en_cours |-> total - termines,
                                  termines |-> termines],
                       !.rows = kept]

\* Lines 363-415: the counts over all the rows, then the rows sorted and
\* filtered.
overview(records, search, status) ==
    LET rows == summary_rows(records)
        Done(row) == row.saisie_terminee
        total == Len(rows)
        termines == Len(SelectSeq(rows, Done))
    IN  [NoResp EXCEPT !.stats = [total_questionnaires |-> total,
                                  en_cours |-> total - termines,
                                  termines |-> termines],
                       !.rows = filter_rows(newest_first(rows), search, status)]

\* The guard, then lines 347-356 of admin_overview.
AdminOverviewStart(p, form, auth, args) ==
    /\ req[p].pc = "idle"
    /\ LET denied == require_admin_auth(env, auth)
           r == [IdleReq EXCEPT !.kind = "admin_overview", !.form = form, !.data = args,
                                !.auth = auth, !.before = table]
       IN  req' = [req EXCEPT ![p] =
                IF denied # 0 THEN Respond(r, denied, NoResp)
                ELSE IF ~get_form_config(form).found THEN Respond(r, 404, NoResp)
                ELSE [r EXCEPT !.pc = "fetch"]]
    /\ UNCHANGED <<table, nextId, env>>

\* The request after fetch_all_records answered (lines 358-415).
AfterFetch(r, outcome, rows) ==
    IF outcome # "ok"
    THEN Respond(r, 500, NoResp)
    ELSE Respond(r, 200, overview(Page(rows, PageLimit), search_arg(r.data),
                                  status_arg(r.data)))

AdminFetch(p, outcome) ==
    /\ req[p].kind = "admin_overview"
    /\ req[p].pc = "fetch"
    /\ req' = [req EXCEPT ![p] = AfterFetch(Called(@, "scan", outcome), outcome, table)]
    /\ UNCHANGED <<table, nextId, env>>

\* The guard, then serve_admin: the page is sent (200), or there is no such
\* file (404).
AdminPage(p, form, auth, exists) ==
    /\ req[p].pc = "idle"
    /\ LET denied == require_admin_auth(env, auth)
           r == [IdleReq EXCEPT !.kind = "admin_page", !.form = form, !.auth = auth,
                                !.before = table]
       IN  req' = [req EXCEPT ![p] =
                IF denied # 0 THEN Respond(r, denied, NoResp)
                ELSE Respond(r, IF exists THEN 200 ELSE 404, NoResp)]
    /\ UNCHANGED <<table, nextId, env>>

\* The response has left: the thread is free for the next request.
Return(p) ==
    /\ req[p].pc = "done"
    /\ req' = [req EXCEPT ![p] = IdleReq]
    /\ UNCHANGED <<table, nextId, env>>

----------------------------------------------------------------------------
\* The requests the clients send.

Field1(k, v) == k :> v

Field2(k1, v1, k2, v2) == (k1 :> v1) @@ (k2 :> v2)

Field3(k1, v1, k2, v2, k3, v3) == (k1 :> v1) @@ (k2 :> v2) @@ (k3 :> v3)

\* Bodies of save requests: the `fields` mapping, or a body without one.
SaveBodies ==
    {[bodyOk |-> TRUE, fields |-> f] : f \in {
        Field2("uuid", Str(<<"u">>), "finess_main", Str(<<"f">>)),
        Field2("uuid", Str(<<"v">>), "finess_main", Str(<<" ", "f">>)),
        Field2("uuid", Str(<<"U">>), "finess_main", Str(<<"F">>)),
        Field2("uuid", Str(<<"u">>), "finess_json",
               Str(<<"[", "\"", "g", "\"", "]">>)),
        Field2("uuid", Str(<<"v">>), "finess_json", PyList(<<<<"g">>, <<>>>>)),
        Field2("uuid", Str(<<"u">>), "finess_json", Str(<<"[">>)),
        Field2("uuid", Str(<<"u">>), "finess_main", Str(<<>>)),
        Field2("uuid", Str(<<" ">>), "finess_main", Str(<<"g">>)),
        Field1("finess_main", Str(<<"f">>))}}
    \cup {[bodyOk |-> FALSE, fields |-> EmptyMap]}

\* Save requests: every body for the form with an API key, one body for the
\* others.
SaveRequests ==
    {[form |-> "demo", body |-> b] : b \in SaveBodies}
    \cup {[form |-> fm, body |-> [bodyOk |-> TRUE,
                                   fields |-> Field2("uuid", Str(<<"u">>),
                                                     "finess_main", Str(<<"f">>))]] :
            fm \in {"open", "ghost"}}

\* check-finess requests.
CheckRequests ==
    {[form |-> "demo", data |-> d] : d \in {
        EmptyMap,
        Field2("uuid", Str(<<"u">>), "finess", PyList(<<>>)),
        Field2("uuid", Str(<<"v">>), "finess", PyList(<<<<>>, <<" ">>>>)),
        Field2("uuid", Str(<<"u">>), "finess", PyList(<<<<" ", "f">>>>)),
        Field2("uuid", Str(<<"v">>), "finess", PyList(<<<<"f">>, <<"g">>>>)),
        Field1("finess", PyList(<<<<"g">>>>)),
        Field1("finess", Str(<<"f">>))}}
    \cup {[form |-> "open", data |-> d] : d \in {
        Field1("finess", PyList(<<<<" ">>>>)),
        Field2("uuid", Str(<<"u">>), "finess", PyList(<<<<"f">>>>))}}
    \cup {[form |-> "ghost", data |-> Field1("finess", PyList(<<>>))]}

----------------------------------------------------------------------------
\* The service with one handler thread: requests do not overlap.

Init ==
    /\ table = <<>>
    /\ nextId = 1
    /\ req = [p \in Procs |-> IdleReq]
    /\ env = [ADMIN_USERNAME |-> PyNone, ADMIN_PASSWORD |-> PyNone]

Next ==
    \/ \E q \in SaveRequests : SaveStart(1, q.form, q.body.bodyOk, q.body.fields)
    \/ \E o \in Outcomes : SaveLookup(1, o)
    \/ \E o \in Outcomes : SaveScan(1, o)
    \/ \E o \in Outcomes : SaveWrite(1, o)
    \/ \E q \in CheckRequests : CheckStart(1, q.form, q.data)
    \/ \E o \in Outcomes : CheckScan(1, o)
    \/ Return(1)

Spec == Init /\ [][Next]_vars

----------------------------------------------------------------------------
\* The service with two handler threads: saves overlap.

\* The saves of two clients that claim the same facility code.
RaceRequests ==
    {[form |-> "demo", body |-> [bodyOk |-> TRUE, fields |-> f]] : f \in {
        Field2("uuid", Str(<<"u">>), "finess_main", Str(<<"f">>)),
        Field2("uuid", Str(<<"v">>), "finess_main", Str(<<" ", "f">>)),
        Field2("uuid", Str(<<"v">>), "finess_json",
               Str(<<"[", "\"", "g", "\"", "]">>))}}

RaceNext ==
    \E p \in Procs :
        \/ \E q \in RaceRequests : SaveStart(p, q.form, q.body.bodyOk, q.body.fields)
        \/ \E o \in Outcomes : SaveLookup(p, o)
        \/ \E o \in Outcomes : SaveScan(p, o)
        \/ \E o \in Outcomes : SaveWrite(p, o)
        \/ Return(p)

RaceSpec == Init /\ [][RaceNext]_vars

----------------------------------------------------------------------------
\* Recovery by email, on the tables the remote store may hold.  The rows of a
\* response come in the order the remote store chooses.

Email_ab == <<"a", "@", "b">>

Email_AB == <<"A", "@", "B">>

Email_cd == <<"c", "@", "d">>

RecoverRowPool ==
    {[id |-> 1, fields |-> Field2("uuid", Str(<<"u">>), "validateur_email", Str(Email_ab))],
     [id |-> 2, fields |-> Field2("uuid", Str(<<"v">>), "validateur_email", Str(Email_AB))],
     [id |-> 3, fields |-> Field2("uuid", Str(<<"w">>), "validateur_email",
                                   Str(<<" ">> \o Email_ab))],
     [id |-> 4, fields |-> Field2("uuid", Str(<<>>), "validateur_email", Str(Email_ab))],
     [id |-> 5, fields |-> Field1("validateur_email", Str(Email_AB))],
     [id |-> 6, fields |-> Field2("uuid", Str(<<"x">>), "validateur_email", Str(Email_cd))]}

\* The sequences of at most n rows of a pool, no row id twice.
RECURSIVE TablesOf(_, _)
TablesOf(pool, n) ==
    IF n = 0 THEN {<<>>}
    ELSE LET shorter == TablesOf(pool, n - 1)
             longest == {t \in shorter : Len(t) = n - 1}
         IN  shorter \cup
             {Append(x[1], x[2]) :
                 x \in {y \in longest \X pool :
                          \A i \in 1..Len(y[1]) : y[1][i].id # y[2].id}}

RecoverRequests ==
    {[form |-> "demo", data |-> d] : d \in {
        Field1("email", Str(Email_ab)),
        Field1("email", Str(<<" ">> \o Email_AB)),
        Field1("email", Str(Email_cd)),
        Field1("email", Str(<<"z">>)),
        Field1("email", Str(<<" ">>)),
        EmptyMap}}
    \cup {[form |-> fm, data |-> Field1("email", Str(Email_AB))] : fm \in {"open", "ghost"}}

RecoverInit ==
    /\ table \in TablesOf(RecoverRowPool, MaxInitRows)
    /\ nextId = 1 + Cardinality(RecoverRowPool)
    /\ req = [p \in Procs |-> IdleReq]
    /\ env = [ADMIN_USERNAME |-> PyNone, ADMIN_PASSWORD |-> PyNone]

RecoverNext ==
    \/ \E q \in RecoverRequests : RecoverStart(1, q.form, q.data)
    \/ \E o \in Outcomes : RecoverFilter(1, o)
    \/ \E o \in Outcomes : RecoverScan(1, o)
    \/ Return(1)

RecoverSpec == RecoverInit /\ [][RecoverNext]_vars

----------------------------------------------------------------------------
\* The admin endpoints, on the tables the remote store may hold and the
\* admin credentials the deployment may set.  Every row the remote store
\* returns holds the columns of its table, so no row comes without fields.

AdminRowPool ==
    {[id |-> 1, fields |-> Field3("uuid", Str(<<"u">>), "es_nom", Str(<<"A", "b">>),
                                   "saisie_terminee", PyBool(TRUE))],
     [id |-> 2, fields |-> Field3("uuid", Str(<<"v">>), "es_nom", Str(<<"b">>),
                                   "saisie_terminee", Str(<<"O", "u", "i", " ">>))],
     [id |-> 3, fields |-> Field2("uuid", Str(<<"w">>), "validateur_email", Str(Email_ab))],
     [id |-> 4, fields |-> Field3("uuid", Str(<<"a">>), "finess_main", Str(<<"7">>),
                                   "saisie_terminee", PyInt(<<"1">>))],
     [id |-> 5, fields |-> Field3("uuid", Str(<<"x">>), "es_departement", Str(<<"7">>),
                                   "saisie_terminee", Str(<<"n", "o", "n">>))]}

AdminEnvs ==
    {[ADMIN_USERNAME |-> PyNone, ADMIN_PASSWORD |-> PyNone],
     [ADMIN_USERNAME |-> Str(<<"a">>), ADMIN_PASSWORD |-> PyNone],
     [ADMIN_USERNAME |-> Str(<<>>), ADMIN_PASSWORD |-> Str(<<"s">>)],
     [ADMIN_USERNAME |-> Str(<<"a">>), ADMIN_PASSWORD |-> Str(<<"s">>)]}

\* The Authorization header of a request: none, or a username and a password.
AdminAuths ==
    {NoAuth,
     [given |-> TRUE, username |-> <<"a">>, password |-> <<"s">>],
     [given |-> TRUE, username |-> <<"a">>, password |-> <<"x">>],
     [given |-> TRUE, username |-> <<"b">>, password |-> <<"s">>],
     [given |-> TRUE, username |-> <<>>, password |-> <<>>]}

\* The query strings of the overview.
AdminArgs ==
    {EmptyMap,
     Field1("search", Str(<<"B">>)),
     Field1("status", Str(<<"t", "e", "r", "m", "i", "n", "e", "s">>)),
     Field1("status", Str(<<" ", "E", "N", "_", "c", "o", "u", "r", "s">>)),
     Field2("search", Str(<<" ", "7">>), "status", Str(<<"t", "e", "r", "m", "i", "n", "e", "s">>)),
     Field2("search", Str(<<"a">>), "status", Str(<<"e", "n", "_", "c", "o", "u", "r", "s">>)),
     Field2("search", Str(<<" ">>), "status", Str(<<"a", "l", "l">>))}

AdminInit ==
    /\ table \in TablesOf(AdminRowPool, MaxInitRows)
    /\ nextId = 1 + Cardinality(AdminRowPool)
    /\ req = [p \in Procs |-> IdleReq]
    /\ env \in AdminEnvs

AdminNext ==
    \/ \E auth \in AdminAuths, args \in AdminArgs : AdminOverviewStart(1, "demo", auth, args)
    \/ \E auth \in AdminAuths : AdminOverviewStart(1, "ghost", auth, EmptyMap)
    \/ \E o \in Outcomes : AdminFetch(1, o)
    \/ \E auth \in AdminAuths, exists \in BOOLEAN : AdminPage(1, "demo", auth, exists)
    \/ Return(1)

AdminSpec == AdminInit /\ [][AdminNext]_vars

----------------------------------------------------------------------------
\* Vocabulary of the properties.

\* The rows whose uuid cell is exactly this value.
RowsWithUuid(rows, uuid) ==
    LET Same(row) == Get(row.fields, "uuid") = uuid
    IN  SelectSeq(rows, Same)

\* The rows whose uuid cell differs from this value.
RowsOfOthers(rows, uuid) ==
    LET Differs(row) == Get(row.fields, "uuid") # uuid
    IN  SelectSeq(rows, Differs)

\* The facility codes held by a sequence of rows.
CodesOf(rows) == UNION {extract_finess_values(rows[i].fields) : i \in 1..Len(rows)}

Elements(seq) == {seq[i] : i \in 1..Len(seq)}

WriteCalls(r) == {i \in 1..Len(r.calls) : r.calls[i].op \in {"post", "patch"}}

\* Every outbound call of the request so far answered 200.
AllCallsOk(r) == \A i \in 1..Len(r.calls) : r.calls[i].outcome = "ok"

\* The request is a save that went through the existence lookup and, when it
\* had codes to check, through the uniqueness scan, both answered 200.
SaveChecked(r) ==
    /\ r.kind = "save"
    /\ r.pc \in {"write", "done"}
    /\ Len(r.calls) >= 1
    /\ \A i \in 1..Len(r.calls) :
          r.calls[i].op \in {"lookup", "scan"} => r.calls[i].outcome = "ok"

\* C1: a save with uuid u whose codes meet those of a row with another uuid
\* is answered 409, with every shared code in `duplicates`, and writes
\* nothing; and only rows with another uuid contribute to `duplicates`.
\* (Stated for the saves whose lookup and scan answered 200.)
C1_ConflictIffOtherUuid ==
    \A p \in Procs :
        LET r == req[p]
            shared == r.incoming \cap CodesOf(RowsOfOthers(r.before, Get(r.data, "uuid")))
        IN  (SaveChecked(r) /\ r.pc = "done") =>
                /\ shared # {} =>
                      /\ r.status = 409
                      /\ shared \subseteq Elements(r.resp.duplicates)
                      /\ WriteCalls(r) = {}
                      /\ table = r.before
                /\ r.status = 409 => Elements(r.resp.duplicates) \subseteq shared

\* C2: a save whose codes are disjoint from those of the rows with another
\* uuid, and whose calls all answer 200, issues exactly one write: a PATCH of
\* the row found for its uuid, or a POST of the fields when there is none; it
\* is not answered 409.
C2_DisjointSaveWrites ==
    \A p \in Procs :
        LET r == req[p]
            uuid == Get(r.data, "uuid")
            own == RowsWithUuid(r.before, uuid)
        IN  (/\ SaveChecked(r)
             /\ r.pc = "done"
             /\ AllCallsOk(r)
             /\ r.incoming \cap CodesOf(RowsOfOthers(r.before, uuid)) = {}) =>
                /\ r.status # 409
                /\ Cardinality(WriteCalls(r)) = 1
                /\ \A i \in WriteCalls(r) :
                      r.calls[i].op = IF own # <<>> THEN "patch" ELSE "post"
                /\ IF own # <<>>
                   THEN table = RemoteUpdate(r.before, own[1].id, r.data)
                   ELSE /\ Len(table) = Len(r.before) + 1
                        /\ table[Len(table)].fields = r.data

\* C10: with non-overlapping saves from an empty table, no two rows with
\* different uuids hold a common normalized facility code.
C10_UniqueAcrossUuids ==
    \A i, j \in 1..Len(table) :
        Get(table[i].fields, "uuid") # Get(table[j].fields, "uuid") =>
            extract_finess_values(table[i].fields)
                \cap extract_finess_values(table[j].fields) = {}

\* C3: with non-overlapping saves from a table without a row for uuid u, the
\* first successful save of u inserts one row and every later one updates
\* that row, whose id stays; the table never holds two rows with uuid u.
C3_OneRowPerUuid ==
    /\ \A i, j \in 1..Len(table) :
          Get(table[i].fields, "uuid") = Get(table[j].fields, "uuid") => i = j
    /\ \A p \in Procs :
          LET r == req[p]
              uuid == Get(r.data, "uuid")
              own == RowsWithUuid(r.before, uuid)
              n == Len(r.before)
          IN  (r.kind = "save" /\ r.pc = "done" /\ r.status = 200) =>
                  IF own = <<>>
                  THEN /\ Len(table) = n + 1
                       /\ SubSeq(table, 1, n) = r.before
                       /\ Get(table[n + 1].fields, "uuid") = uuid
                       /\ \A i \in 1..n : table[n + 1].id # table[i].id
                  ELSE /\ Len(own) = 1
                       /\ Len(table) = n
                       /\ \A i \in 1..n :
                             /\ table[i].id = r.before[i].id
                             /\ table[i].id # own[1].id => table[i] = r.before[i]
                             /\ table[i].id = own[1].id =>
                                   \A k \in DOMAIN r.data : table[i].fields[k] = r.data[k]

\* A second save of a uuid has updated its row: the row is still the only
\* one of the uuid and holds a field it did not hold before.
C3_Witness ==
    \E p \in Procs :
        LET r == req[p]
            own == RowsWithUuid(r.before, Get(r.data, "uuid"))
        IN  /\ r.kind = "save" /\ r.pc = "done" /\ r.status = 200
            /\ Len(own) = 1
            /\ Len(r.calls) = 3 /\ r.calls[3].op = "patch"
            /\ Len(RowsWithUuid(table, Get(r.data, "uuid"))) = 1
            /\ table # r.before
            /\ Len(table) = 2

\* C5: check-finess for a known form with a `finess` list that is empty, or
\* whose values all normalize to the empty string, answers 200 with
\* has_duplicates false and no duplicates, without any outbound call.
C5_EmptyListNoCall ==
    \A p \in Procs :
        LET r == req[p]
            finess == Get(r.data, "finess")
        IN  (/\ r.kind = "check_finess"
             /\ r.pc = "done"
             /\ get_form_config(r.form).found
             /\ finess.t = "list"
             /\ \A i \in 1..Len(finess.items) : Strip(finess.items[i]) = <<>>) =>
                /\ r.status = 200
                /\ r.resp.has_duplicates = FALSE
                /\ r.resp.duplicates = <<>>
                /\ r.calls = <<>>

\* A check-finess request with only blank values was answered while the
\* table holds rows with codes.
C5_Witness ==
    \E p \in Procs :
        LET r == req[p]
            finess == Get(r.data, "finess")
        IN  /\ r.kind = "check_finess" /\ r.pc = "done" /\ r.status = 200
            /\ finess.t = "list" /\ Len(finess.items) = 2
            /\ \A i \in 1..Len(finess.items) : Strip(finess.items[i]) = <<>>
            /\ CodesOf(table) # {}
            /\ r.calls = <<>>

\* C9: a save issues its calls in the order lookup, scan (only with codes to
\* check), write; no call is repeated and none follows a failed one; and a
\* save that fails before its write (unknown form 404, no credential 500, no
\* body or uuid 400, failed lookup, failed scan 500, duplicates 409) issues
\* no write and leaves the table as it was.
C9_OrderedCallsNoWriteOnFailure ==
    \A p \in Procs :
        LET r == req[p]
            config == get_form_config(r.form)
            n == Len(r.calls)
            lookupFailed == n >= 1 /\ r.calls[1].outcome # "ok"
            scanFailed == \E i \in 1..n : r.calls[i].op = "scan" /\ r.calls[i].outcome # "ok"
            rejected == ~config.found \/ ~config.api_key \/ ~Truthy(Get(r.data, "uuid"))
        IN  r.kind = "save" =>
                /\ n <= 3
                /\ Cardinality(WriteCalls(r)) <= 1
                /\ \A i \in 1..n :
                      /\ r.calls[i].op = "lookup" <=> i = 1
                      /\ r.calls[i].op = "scan" => i = 2 /\ r.incoming # {}
                      /\ i \in WriteCalls(r) => i = n /\ (i = 2 <=> r.incoming = {})
                      /\ i < n => r.calls[i].outcome = "ok"
                /\ r.pc = "done" =>
                      /\ ~config.found => r.status = 404
                      /\ (config.found /\ ~config.api_key) => r.status = 500
                      /\ (config.found /\ config.api_key /\ ~Truthy(Get(r.data, "uuid")))
                            => r.status = 400
                      /\ rejected => n = 0
                      /\ lookupFailed =>
                            r.status = IF r.calls[1].outcome = "raise" THEN 500 ELSE 502
                      /\ scanFailed => r.status = 500
                      /\ r.duplicates # {} => r.status = 409
                      /\ (rejected \/ lookupFailed \/ scanFailed \/ r.duplicates # {}) =>
                            /\ WriteCalls(r) = {}
                            /\ table = r.before

\* A save whose uniqueness scan failed was answered 500 after two calls, the
\* table, which holds rows, untouched.
C9_Witness ==
    \E p \in Procs :
        LET r == req[p]
        IN  /\ r.kind = "save" /\ r.pc = "done" /\ r.status = 500
            /\ Len(r.calls) = 2
            /\ r.calls[2].op = "scan" /\ r.calls[2].outcome = "raise"
            /\ table # <<>> /\ table = r.before

\* C8: overlapping saves are not kept from colliding.  A save whose scan
\* found no duplicate and whose calls all answered 200 ends with its write
\* done and the answer 200, whatever another save wrote in between: its row
\* is in the table with the fields sent.
C8_CheckedSaveAlwaysWrites ==
    \A p \in Procs :
        LET r == req[p]
        IN  (SaveChecked(r) /\ r.pc = "done" /\ AllCallsOk(r) /\ r.duplicates = {}) =>
                /\ r.status = 200
                /\ Cardinality(WriteCalls(r)) = 1
                /\ \E i \in 1..Len(table) :
                      \A k \in DOMAIN r.data : Get(table[i].fields, k) = r.data[k]

\* Two saves with the uuids u and v and the common code F, both started on
\* the empty table, both passed their scan and were both answered 200: the
\* table holds two rows with different uuids and a common code.
C8_Witness ==
    /\ \A p \in Procs :
          /\ req[p].kind = "save" /\ req[p].pc = "done" /\ req[p].status = 200
          /\ req[p].before = <<>>
          /\ req[p].incoming = {<<"F">>}
          /\ Len(req[p].calls) = 3 /\ req[p].calls[2].op = "scan"
          /\ req[p].calls[3].op = "post"
    /\ normalize_finess(Get(req[1].data, "uuid")) # normalize_finess(Get(req[2].data, "uuid"))
    /\ Len(table) = 2
    /\ Get(table[1].fields, "uuid") # Get(table[2].fields, "uuid")
    /\ extract_finess_values(table[1].fields) \cap extract_finess_values(table[2].fields)
          = {<<"F">>}

\* The rows with a non-empty uuid whose normalized email is e.
EmailMatches(rows, e) ==
    LET Hit(row) == /\ Truthy(Get(row.fields, "uuid"))
                    /\ normalize_email(Get(row.fields, "validateur_email")) = e
    IN  SelectSeq(rows, Hit)

\* The rows with a non-empty uuid whose email cell is exactly e.
ExactEmailMatches(rows, e) ==
    LET Hit(row) == /\ Truthy(Get(row.fields, "uuid"))
                    /\ Get(row.fields, "validateur_email") = Str(e)
    IN  SelectSeq(rows, Hit)

\* The answer of recover-by-email is the one drawn from the rows M: 404 when
\* M is empty, else 200 with the uuid of the row of M with the largest id and
\* the size of M as count.
AnswersFrom(r, M) ==
    IF M = <<>>
    THEN r.status = 404
    ELSE /\ r.status = 200
         /\ r.resp.count = Len(M)
         /\ \E i \in 1..Len(M) :
               /\ \A j \in 1..Len(M) : M[j].id <= M[i].id
               /\ r.resp.uuid = Get(M[i].fields, "uuid")

\* A recover-by-email request with a non-empty email, answered after calls
\* that all returned 200.
Recovered(r) ==
    /\ r.kind = "recover"
    /\ r.pc = "done"
    /\ Len(r.calls) >= 1
    /\ AllCallsOk(r)

\* C4, as claimed: the answer is drawn from all the rows with a non-empty
\* uuid whose email equals e after trim and lower-case on both sides.
C4_AnswerFromAllNormalizedMatches ==
    \A p \in Procs :
        Recovered(req[p]) =>
            AnswersFrom(req[p], EmailMatches(table, normalize_email(Get(req[p].data, "email"))))

\* C4, amended: the answer is drawn from the rows with a non-empty uuid whose
\* email cell is exactly the normalized e when there are any, and from all
\* the rows whose normalized email equals e only when there are none.
C4_AnswerFromExactElseNormalized ==
    \A p \in Procs :
        LET e == normalize_email(Get(req[p].data, "email"))
            exact == ExactEmailMatches(table, e)
        IN  Recovered(req[p]) =>
                AnswersFrom(req[p], IF exact # <<>> THEN exact ELSE EmailMatches(table, e))

\* The fallback scan found two rows that store the email in other casings,
\* the one with the largest id not the last of them, and answered with it.
C4_Witness ==
    \E p \in Procs :
        LET r == req[p]
            e == normalize_email(Get(r.data, "email"))
            M == EmailMatches(table, e)
        IN  /\ Recovered(r) /\ r.status = 200
            /\ Len(r.calls) = 2
            /\ ExactEmailMatches(table, e) = <<>>
            /\ Len(M) = 2 /\ M[1].id > M[2].id
            /\ r.resp.count = 2
            /\ r.resp.uuid = Get(M[1].fields, "uuid")
            /\ Get(r.data, "email") # Str(e)

\* The record has the completed flag the status asks for.
PassesStatus(rec, status) ==
    LET done == as_bool(Get(rec.fields, "saisie_terminee"))
    IN  /\ status = <<"t", "e", "r", "m", "i", "n", "e", "s">> => done
        /\ status = <<"e", "n", "_", "c", "o", "u", "r", "s">> => ~done

\* The searched text occurs in the record's searched columns.
PassesSearch(rec, search) ==
    search = <<>> \/ Contains(haystack(summary_row(rec)), search)

\* C6: the stats of an admin overview are those of the whole table, whatever
\* `search` and `status` are: total_questionnaires is the number of records,
\* termines the number of those whose completed flag normalizes to true,
\* en_cours the difference; and `rows` holds exactly the records that pass
\* the status filter and the search, newest first.
C6_StatsOverWholeTable ==
    \A p \in Procs :
        LET r == req[p]
            rows == r.resp.rows
            done == {i \in 1..Len(table) : as_bool(Get(table[i].fields, "saisie_terminee"))}
            passing == {i \in 1..Len(table) :
                          /\ PassesStatus(table[i], status_arg(r.data))
                          /\ PassesSearch(table[i], search_arg(r.data))}
        IN  (r.kind = "admin_overview" /\ r.pc = "done" /\ r.status = 200) =>
                /\ r.resp.stats.total_questionnaires = Len(table)
                /\ r.resp.stats.termines = Cardinality(done)
                /\ r.resp.stats.en_cours = Len(table) - Cardinality(done)
                /\ {rows[i].record_id : i \in 1..Len(rows)} = {table[i].id : i \in passing}
                /\ \A i, j \in 1..Len(rows) : i < j => rows[i].record_id > rows[j].record_id

\* An overview of three records, two of them completed, narrowed to one row
\* by a status filter and a search.
C6_Witness ==
    \E p \in Procs :
        LET r == req[p]
        IN  /\ r.kind = "admin_overview" /\ r.pc = "done" /\ r.status = 200
            /\ search_arg(r.data) # <<>>
            /\ status_arg(r.data) = <<"t", "e", "r", "m", "i", "n", "e", "s">>
            /\ r.resp.stats.total_questionnaires = 3
            /\ r.resp.stats.termines = 2
            /\ r.resp.stats.en_cours = 1
            /\ Len(r.resp.rows) = 1

\* C7: the admin endpoints fail closed.  Without a configured username and
\* password the answer is 503; with them, and no or other credentials in the
\* request, 401; either way the handler does not run: no outbound call, no
\* record data.  The handler runs only with the configured credentials.
C7_AdminFailsClosed ==
    \A p \in Procs :
        LET r == req[p]
            configured == Truthy(env.ADMIN_USERNAME) /\ Truthy(env.ADMIN_PASSWORD)
            matching == /\ r.auth.given
                        /\ Str(r.auth.username) = env.ADMIN_USERNAME
                        /\ Str(r.auth.password) = env.ADMIN_PASSWORD
            refused == r.pc = "done" /\ r.calls = <<>> /\ r.resp = NoResp
        IN  r.kind \in {"admin_overview", "admin_page"} =>
                /\ ~configured => refused /\ r.status = 503
                /\ (configured /\ ~matching) => refused /\ r.status = 401
                /\ (r.pc = "fetch" \/ r.calls # <<>> \/ r.status \in {200, 404, 500})
                      => configured /\ matching

\* An overview request with the right username and a wrong password was
\* refused with 401 while the table holds records.
C7_Witness ==
    \E p \in Procs :
        LET r == req[p]
        IN  /\ r.kind = "admin_overview" /\ r.pc = "done" /\ r.status = 401
            /\ Truthy(env.ADMIN_USERNAME) /\ Truthy(env.ADMIN_PASSWORD)
            /\ r.auth.given
            /\ Str(r.auth.username) = env.ADMIN_USERNAME
            /\ Str(r.auth.password) # env.ADMIN_PASSWORD
            /\ table # <<>>
            /\ r.calls = <<>>

====
